---------------------------- MODULE Spec2Model ----------------------------
(***************************************************************************)
(* Churn prediction service: server/ml/train_churn_model.py (the producer  *)
(* of the model artifact), server/ml/predict.py (module-level load of the  *)
(* artifact and predict_churn) and server/app.py (the POST /predict-churn  *)
(* handler).                                                               *)
(*                                                                         *)
(* Three specifications share the variables:                               *)
(*   SpecStartup  the two scripts as processes: the training script writes *)
(*                the artifact, the import of predict.py opens and loads   *)
(*                it.                                                      *)
(*   Spec         the request handler of app.py, run by the concurrent     *)
(*                requests of Clients, with the module global `model`      *)
(*                bound to a fitted forest.                                *)
(*   SpecPredict  predict_churn as a function of (model, customer_data),   *)
(*                over every forest and every Python value of the bounds.  *)
(*                                                                         *)
(* Spec and SpecPredict start where `model` is bound.  SpecStartup shows   *)
(* that predict.py as written does not get there: its first line,          *)
(* "#(import pickle", is a comment, so line 6 raises NameError.            *)
(*                                                                         *)
(* Numbers that the code holds as floats are held here as exact fractions  *)
(* [num, den]; round(x, 2) yields a fraction over 100.                     *)
(***************************************************************************)
EXTENDS Integers, Sequences, FiniteSets

\* ------------------------------------------------------------------ bounds

\* Largest number of trees in a fitted forest (n_estimators; the forests of
\* sizes 1..MaxTrees are all considered).
MaxTrees == 3

\* Feature values a request may carry are 1..MaxVal.
MaxVal == 2

\* The requests that may be in flight at once.
Clients == { "c1", "c2" }

\* ------------------------------------------------------------------- state

VARIABLES
    artifact,   \* server/ml/churn_model.pkl: [state, content]
    fitted,     \* train_churn_model.py's `model`
    trn,        \* where the training script is
    model,      \* predict.py's module global `model`: [bound, value]
    srv,        \* where the server process is
    srvErr,     \* the exception that ended the server process
    loadSaw,    \* the state of the artifact when line 6 of predict.py ran
    pc,         \* per request: where the handler is
    req,        \* per request: the body sent
    data,       \* per request: the handler's `data`
    out,        \* per request: the outcome of predict_churn(data)
    err,        \* per request: the exception the handler caught
    resp,       \* per request: the response
    call        \* SpecPredict: the call of predict_churn, pending or made

\* ------------------------------------------------------ training script

\* train_churn_model.py:6-12, the column order of the DataFrame.
DataColumns ==
    << "avg_order_value", "purchase_frequency", "days_since_last_purchase",
       "total_spent", "churned" >>

\* DataFrame.drop(label, axis=1): the columns without `label`, order kept.
RECURSIVE Drop(_, _)
Drop(cols, label) ==
    IF cols = << >> THEN << >>
    ELSE IF Head(cols) = label THEN Drop(Tail(cols), label)
    ELSE << Head(cols) >> \o Drop(Tail(cols), label)

\* train_churn_model.py:15, X = data.drop('churned', axis=1).
TrainColumns == Drop(DataColumns, "churned")

\* train_churn_model.py:11,16, the labels of y.
Classes == << 0, 1 >>

\* A fitted decision tree, as far as predict_proba can tell: a split on the
\* column at position feat (<= thr goes left) with a class at each leaf.  The
\* training rows have no two equal feature rows with different labels, so the
\* fully grown trees of RandomForestClassifier() have pure leaves.  Two
\* shapes, one splitting on days_since_last_purchase and one on
\* purchase_frequency, are enough for the forests to disagree on a row.
TreeShapes ==
    { [feat |-> 3, thr |-> 1, left |-> 0, right |-> 1],
      [feat |-> 2, thr |-> 1, left |-> 1, right |-> 0] }

RECURSIVE SumOver(_, _)
SumOver(f, S) ==
    IF S = {} THEN 0
    ELSE LET x == CHOOSE y \in S : TRUE IN f[x] + SumOver(f, S \ {x})

\* train_churn_model.py:19-20, the outcomes of RandomForestClassifier().fit(X, y):
\* the fit is seeded at random, so any forest over the columns of X.  A forest
\* is its column order and the number of trees of each shape (the average that
\* predict_proba takes does not depend on the order of the trees).
Forests ==
    { [columns |-> TrainColumns, trees |-> t] :
        t \in { b \in [TreeShapes -> 0..MaxTrees] :
                  SumOver(b, TreeShapes) \in 1..MaxTrees } }

\* --------------------------------------------------------- request bodies

\* FeatureKeys with total_spent read before days_since_last_purchase.
FeatureKeysSwapped ==
    << "avg_order_value", "purchase_frequency", "total_spent",
       "days_since_last_purchase" >>

\* predict.py:11-14, the keys predict_churn reads, in the order it reads them.
FeatureKeys ==
    << "avg_order_value", "purchase_frequency", "days_since_last_purchase",
       "total_spent" >>

RequiredKeys == { FeatureKeys[i] : i \in 1..Len(FeatureKeys) }

\* A key that is none of the four.
ExtraKey == "customer_id"

Num(v) == [t |-> "num", v |-> v]
\* A JSON string that is not a number, such as "abc".
NonNumeric == [t |-> "str", v |-> 0]

JsonValues == { Num(v) : v \in 1..MaxVal } \cup { NonNumeric }

\* The JSON objects a client may send: any subset of the four keys, with or
\* without the extra key, every value a number or a non-numeric string.
JsonObjects ==
    UNION { [ks -> JsonValues] : ks \in SUBSET (RequiredKeys \cup {ExtraKey}) }


\* What a request can carry.  "not_json_mimetype": the Content-Type is not
\* JSON; "malformed": the body is not valid JSON (an empty body included);
\* the others are valid JSON values of that kind.
BodyKinds ==
    { "not_json_mimetype", "malformed", "null", "number", "string", "array",
      "object" }

Body(kind, obj) == [kind |-> kind, obj |-> obj]

NonObjectBodies == { Body(k, << >>) : k \in BodyKinds \ {"object"} }

\* The values predict_churn may be called with: what json.loads can return
\* (None, a number, a str, a list, a dict).
PythonValues ==
    { Body(k, << >>) : k \in { "null", "number", "string", "array" } }
        \cup { Body("object", o) : o \in JsonObjects }

\* The bodies the concurrent clients send: every set of keys, all the values
\* of one object equal (the least number, the greatest, or a string).
UniformObjects ==
    { [k \in ks |-> v] : ks \in SUBSET (RequiredKeys \cup {ExtraKey}),
                         v \in { Num(1), Num(MaxVal), NonNumeric } }

HttpBodies == NonObjectBodies \cup { Body("object", o) : o \in UniformObjects }

\* ------------------------------------------------------------ exceptions

Exc(type, arg) == [type |-> type, arg |-> arg]

NoExc == Exc("", "")

\* str(e): a KeyError shows the repr of the missing key, quotes included; the
\* others show their message.
ExcStr(e) ==
    IF e.type = "KeyError" THEN "'" \o e.arg \o "'" ELSE e.arg

\* --------------------------------------------------------------- numbers

Frac(n, d) == [num |-> n, den |-> d]

FracLess(a, b) == a.num * b.den < b.num * a.den

\* Round2 left out: the value as it is.
Round2Skipped(x) == x

\* round(x, 2) of the float nearest num/den, in hundredths.  Python rounds the
\* exact binary value, half to even.  num/den lies exactly half way between two
\* hundredths only if its reduced denominator is 8, 40 or 200; below 40 it is
\* 8, the float is exact, and the tie goes to the even hundredth.
Round2(x) ==
    LET q == (100 * x.num) \div x.den
        r == (100 * x.num) % x.den
        h == IF 2 * r < x.den THEN q
             ELSE IF 2 * r > x.den THEN q + 1
             ELSE IF q % 2 = 0 THEN q ELSE q + 1
    IN  Frac(h, 100)

\* max(row) of Python: the first of the largest entries.
RECURSIVE RowMax(_)
RowMax(row) ==
    IF Len(row) = 1 THEN row[1]
    ELSE LET m == RowMax(Tail(row))
         IN  IF FracLess(row[1], m) THEN m ELSE row[1]

\* numpy.argmax: the first index of the largest entry.
ArgMax(row) ==
    CHOOSE i \in 1..Len(row) :
        /\ \A j \in 1..Len(row) : ~FracLess(row[i], row[j])
        /\ \A j \in 1..(i - 1) : FracLess(row[j], row[i])

\* ---------------------------------------------------------------- model

NumTrees(m) == SumOver(m.trees, TreeShapes)

\* The class a tree of shape s gives the row x.
TreeVote(s, x) == IF x[s.feat].v <= s.thr THEN s.left ELSE s.right

Votes(m, x, c) ==
    SumOver([s \in TreeShapes |->
                IF TreeVote(s, x) = c THEN m.trees[s] ELSE 0], TreeShapes)

\* predict.py:17, model.predict_proba(features): per row, the mean over the
\* trees of their class probabilities, one entry per class in Classes order.
ModelPredictProba(m, X) ==
    [r \in 1..Len(X) |->
        [c \in 1..Len(Classes) |-> Frac(Votes(m, X[r], Classes[c]), NumTrees(m))]]

\* predict.py:16, model.predict(features): per row, the class at the argmax of
\* the predict_proba row.
ModelPredict(m, X) ==
    [r \in 1..Len(X) |-> Classes[ArgMax(ModelPredictProba(m, X)[r])]]

\* ------------------------------------------------------- predict_churn

\* customer_data[key] for a value that is not a dict raises TypeError.
SubscriptError(kind) ==
    IF kind = "null" THEN Exc("TypeError", "'NoneType' object is not subscriptable")
    ELSE IF kind = "number" THEN Exc("TypeError", "'int' object is not subscriptable")
    ELSE IF kind = "string" THEN Exc("TypeError", "string indices must be integers")
    ELSE Exc("TypeError", "list indices must be integers or slices, not str")

\* GetItem as customer_data.get(key, 0) would do it: a dict that lacks the key
\* gives 0.
GetItemOrZero(customer_data, key) ==
    IF customer_data.kind # "object"
    THEN [raised |-> TRUE, exc |-> SubscriptError(customer_data.kind),
          value |-> NonNumeric]
    ELSE IF key \notin DOMAIN customer_data.obj
    THEN [raised |-> FALSE, exc |-> NoExc, value |-> Num(0)]
    ELSE [raised |-> FALSE, exc |-> NoExc, value |-> customer_data.obj[key]]

\* customer_data[key]: the value, or the exception raised (TypeError for a
\* value that is not a dict, KeyError for a key the dict lacks).
GetItem(customer_data, key) ==
    IF customer_data.kind # "object"
    THEN [raised |-> TRUE, exc |-> SubscriptError(customer_data.kind),
          value |-> NonNumeric]
    ELSE IF key \notin DOMAIN customer_data.obj
    THEN [raised |-> TRUE, exc |-> Exc("KeyError", key), value |-> NonNumeric]
    ELSE [raised |-> FALSE, exc |-> NoExc, value |-> customer_data.obj[key]]

\* The first of the four lookups that raises, 0 when none does.
FirstRaising(customer_data) ==
    LET raises(i) == GetItem(customer_data, FeatureKeys[i]).raised
    IN  IF \A i \in 1..Len(FeatureKeys) : ~raises(i) THEN 0
        ELSE CHOOSE i \in 1..Len(FeatureKeys) :
                raises(i) /\ \A j \in 1..(i - 1) : ~raises(j)

\* FeatureRow built in a buffer all the requests share: a request that another
\* request overtakes between app.py:11 and app.py:12 gets the other's row.
FeatureRowShared(customer_data) ==
    LET others == { c \in Clients :
                      /\ pc[c] = "parsed"
                      /\ data[c] # customer_data
                      /\ data[c].kind = "object"
                      /\ \A i \in 1..Len(FeatureKeys) :
                            FeatureKeys[i] \in DOMAIN data[c].obj }
        src == IF others = {} THEN customer_data
               ELSE data[CHOOSE c \in others : TRUE]
    IN  [i \in 1..Len(FeatureKeys) |-> GetItem(src, FeatureKeys[i]).value]

\* predict.py:10-15, the row np.array([[...]]) holds.
FeatureRow(customer_data) ==
    [i \in 1..Len(FeatureKeys) |-> GetItem(customer_data, FeatureKeys[i]).value]

Raised(e, row, calls) ==
    [raised |-> TRUE, exc |-> e, value |-> << >>, features |-> row, calls |-> calls]

Returned(v, row, calls) ==
    [raised |-> FALSE, exc |-> NoExc, value |-> v, features |-> row, calls |-> calls]

\* PredictionRecord with the probability of churn (class 1) as the confidence.
PredictionRecordChurnProb(prediction, probability) ==
    [churn_risk |-> prediction[1], confidence |-> Round2(probability[1][2])]

\* predict.py:19-22, the record predict_churn returns.
PredictionRecord(prediction, probability) ==
    [churn_risk |-> prediction[1], confidence |-> Round2(RowMax(probability[1]))]

\* predict.py:8-22.  The outcome of predict_churn(customer_data) with the module
\* global `model` bound to m: what it raised or returned, the row it built and
\* the number of calls it made on the model.
predict_churn(m, customer_data) ==
    IF FirstRaising(customer_data) # 0
    THEN Raised(GetItem(customer_data, FeatureKeys[FirstRaising(customer_data)]).exc,
                << >>, 0)
    ELSE LET row == FeatureRow(customer_data)
             features == << row >>
         IN  IF \E i \in 1..Len(row) : row[i].t # "num"
             THEN Raised(Exc("ValueError", "could not convert string to float"),
                         row, 1)
             ELSE Returned(PredictionRecord(ModelPredict(m, features),
                                            ModelPredictProba(m, features)),
                           row, 2)

\* ------------------------------------------------------------- handler

\* The names bound in predict.py's module namespace when line 5 runs: line 1,
\* "#(import pickle", is a comment, so only numpy's alias is.
PredictGlobals == { "np" }

\* app.py:11, request.get_json(): the value parsed, or the exception raised.
\* With a Content-Type that is not JSON, Flask raises 415 Unsupported Media
\* Type (2.1 and later) or returns None (earlier); both are outcomes.
GetJsonOutcomes(body) ==
    IF body.kind = "malformed"
    THEN { [raised |-> TRUE,
            exc |-> Exc("BadRequest", "400 Bad Request: Failed to decode JSON object"),
            value |-> Body("null", << >>)] }
    ELSE IF body.kind = "not_json_mimetype"
    THEN { [raised |-> TRUE,
            exc |-> Exc("UnsupportedMediaType", "415 Unsupported Media Type"),
            value |-> Body("null", << >>)],
           [raised |-> FALSE, exc |-> NoExc, value |-> Body("null", << >>)] }
    ELSE { [raised |-> FALSE, exc |-> NoExc, value |-> body] }

\* jsonify(d): the JSON object with the keys and values of d.
Jsonify(d) == [k \in DOMAIN d |-> d[k]]

\* OkResponse with the record under a "prediction" key.
OkResponseWrapped(result) ==
    [status |-> 200, body |-> Jsonify([prediction |-> result])]

\* app.py:13, return jsonify(result): status 200.
OkResponse(result) == [status |-> 200, body |-> Jsonify(result)]

\* ErrorResponse without the status: Flask's default, 200.
ErrorResponseDefaultStatus(e) ==
    [status |-> 200, body |-> Jsonify([error |-> ExcStr(e)])]

\* app.py:14-15, return jsonify({"error": str(e)}), 400.
ErrorResponse(e) == [status |-> 400, body |-> Jsonify([error |-> ExcStr(e)])]

\* ----------------------------------------------------------------- state


NoForest == [columns |-> << >>, trees |-> << >>]
NoBody == Body("none", << >>)
NoOutcome == Raised(NoExc, << >>, 0)
NoResponse == [status |-> 0, body |-> << >>]
NoCall == [made |-> FALSE, arg |-> NoBody, ret |-> NoOutcome]

vars ==
    << artifact, fitted, trn, model, srv, srvErr, loadSaw,
       pc, req, data, out, err, resp, call >>

startupVars == << artifact, fitted, trn, model, srv, srvErr, loadSaw >>
requestVars == << pc, req, data, out, err, resp >>

File(state, content) == [state |-> state, content |-> content]
Handle(bound, value) == [bound |-> bound, value |-> value]

NoRequests ==
    /\ pc = [c \in Clients |-> "idle"]
    /\ req = [c \in Clients |-> NoBody]
    /\ data = [c \in Clients |-> NoBody]
    /\ out = [c \in Clients |-> NoOutcome]
    /\ err = [c \in Clients |-> NoExc]
    /\ resp = [c \in Clients |-> NoResponse]

\* The process after predict.py's module body has run with `model` bound to a
\* forest read from the artifact, and app.run is serving.
Serving(f) ==
    /\ artifact = File("ok", f)
    /\ fitted = f
    /\ trn = "done"
    /\ model = Handle(TRUE, f)
    /\ srv = "serving"
    /\ srvErr = NoExc
    /\ loadSaw = "ok"

\* ------------------------------------------- POST /predict-churn (app.py)

\* A client sends a request.
Receive(c) ==
    /\ srv = "serving"
    /\ pc[c] = "idle"
    /\ \E b \in HttpBodies : req' = [req EXCEPT ![c] = b]
    /\ pc' = [pc EXCEPT ![c] = "recv"]
    /\ UNCHANGED << startupVars, data, out, err, resp, call >>

\* app.py:11, data = request.get_json().
GetJson(c) ==
    /\ pc[c] = "recv"
    /\ \E o \in GetJsonOutcomes(req[c]) :
          IF o.raised
          THEN /\ err' = [err EXCEPT ![c] = o.exc]
               /\ pc' = [pc EXCEPT ![c] = "raised"]
               /\ data' = data
          ELSE /\ data' = [data EXCEPT ![c] = o.value]
               /\ pc' = [pc EXCEPT ![c] = "parsed"]
               /\ err' = err
    /\ UNCHANGED << startupVars, req, out, resp, call >>

\* app.py:12, result = predict_churn(data).
CallPredictChurn(c) ==
    /\ pc[c] = "parsed"
    /\ LET o == predict_churn(model.value, data[c])
       IN  /\ out' = [out EXCEPT ![c] = o]
           /\ IF o.raised
              THEN /\ err' = [err EXCEPT ![c] = o.exc]
                   /\ pc' = [pc EXCEPT ![c] = "raised"]
              ELSE /\ err' = err
                   /\ pc' = [pc EXCEPT ![c] = "returned"]
    /\ UNCHANGED << startupVars, req, data, resp, call >>

\* app.py:13, return jsonify(result).
ReturnResult(c) ==
    /\ pc[c] = "returned"
    /\ resp' = [resp EXCEPT ![c] = OkResponse(out[c].value)]
    /\ pc' = [pc EXCEPT ![c] = "done"]
    /\ UNCHANGED << startupVars, req, data, out, err, call >>

\* HandleException as `except ValueError as e` would do it: any other exception
\* leaves the handler and Flask answers 500.
HandleExceptionValueErrorOnly(c) ==
    /\ pc[c] = "raised"
    /\ resp' = [resp EXCEPT ![c] =
                  IF err[c].type = "ValueError" THEN ErrorResponse(err[c])
                  ELSE [status |-> 500, body |-> << >>]]
    /\ pc' = [pc EXCEPT ![c] = "done"]
    /\ UNCHANGED << startupVars, req, data, out, err, call >>

\* app.py:14-15, except Exception as e.
HandleException(c) ==
    /\ pc[c] = "raised"
    /\ resp' = [resp EXCEPT ![c] = ErrorResponse(err[c])]
    /\ pc' = [pc EXCEPT ![c] = "done"]
    /\ UNCHANGED << startupVars, req, data, out, err, call >>

\* The response has been sent; the request's locals are gone.
Close(c) ==
    /\ pc[c] = "done"
    /\ pc' = [pc EXCEPT ![c] = "idle"]
    /\ req' = [req EXCEPT ![c] = NoBody]
    /\ data' = [data EXCEPT ![c] = NoBody]
    /\ out' = [out EXCEPT ![c] = NoOutcome]
    /\ err' = [err EXCEPT ![c] = NoExc]
    /\ resp' = [resp EXCEPT ![c] = NoResponse]
    /\ UNCHANGED << startupVars, call >>

Init ==
    /\ \E f \in Forests : Serving(f)
    /\ NoRequests
    /\ call = NoCall

Next ==
    \E c \in Clients :
        \/ Receive(c)
        \/ GetJson(c)
        \/ CallPredictChurn(c)
        \/ ReturnResult(c)
        \/ HandleException(c)
        \/ Close(c)

Spec == Init /\ [][Next]_vars

\* ------------------------------------------- predict_churn, called alone

\* predict.py:8, the pending call predict_churn(call.arg) is made.
Call ==
    /\ model.bound
    /\ ~call.made
    /\ call' = [made |-> TRUE, arg |-> call.arg,
                ret |-> predict_churn(model.value, call.arg)]
    /\ UNCHANGED << startupVars, requestVars >>

\* Any forest as the handle, any Python value as the argument.
InitPredict ==
    /\ \E f \in Forests : Serving(f)
    /\ NoRequests
    /\ \E d \in PythonValues : call = [made |-> FALSE, arg |-> d, ret |-> NoOutcome]

NextPredict == Call

SpecPredict == InitPredict /\ [][NextPredict]_vars

\* ------------------------------------------------ the two scripts started

\* train_churn_model.py:19-20, model = RandomForestClassifier(); model.fit(X, y).
TrainFit ==
    /\ trn = "start"
    /\ \E f \in Forests : fitted' = f
    /\ trn' = "fitted"
    /\ UNCHANGED << artifact, model, srv, srvErr, loadSaw, requestVars, call >>

\* train_churn_model.py:23, open(..., 'wb'): the file exists and is empty.
TrainOpen ==
    /\ trn = "fitted"
    /\ artifact' = File("truncated", NoForest)
    /\ trn' = "opened"
    /\ UNCHANGED << fitted, model, srv, srvErr, loadSaw, requestVars, call >>

\* train_churn_model.py:24, pickle.dump(model, f), and the file is closed.
TrainDump ==
    /\ trn = "opened"
    /\ artifact' = File("ok", fitted)
    /\ trn' = "done"
    /\ UNCHANGED << fitted, model, srv, srvErr, loadSaw, requestVars, call >>

\* The training script is run again.
TrainAgain ==
    /\ trn = "done"
    /\ trn' = "start"
    /\ fitted' = NoForest
    /\ UNCHANGED << artifact, model, srv, srvErr, loadSaw, requestVars, call >>

\* app.py:2 imports ml.predict; predict.py:5, open(..., 'rb').
ImportOpen ==
    /\ srv = "start"
    /\ IF artifact.state = "missing"
       THEN /\ srv' = "crashed"
            /\ srvErr' = Exc("FileNotFoundError", "No such file or directory")
       ELSE /\ srv' = "opened"
            /\ srvErr' = srvErr
    /\ UNCHANGED << artifact, fitted, trn, model, loadSaw, requestVars, call >>

\* predict.py:6, model = pickle.load(f).  The name pickle is looked up first;
\* then the file is read; then `model` is bound, the rest of app.py's module
\* body runs and app.run serves.
ImportLoad ==
    /\ srv = "opened"
    /\ loadSaw' = artifact.state
    /\ IF "pickle" \notin PredictGlobals
       THEN /\ srv' = "crashed"
            /\ srvErr' = Exc("NameError", "name 'pickle' is not defined")
            /\ model' = model
       ELSE IF artifact.state # "ok"
       THEN /\ srv' = "crashed"
            /\ srvErr' = Exc("EOFError", "Ran out of input")
            /\ model' = model
       ELSE /\ srv' = "serving"
            /\ srvErr' = srvErr
            /\ model' = Handle(TRUE, artifact.content)
    /\ UNCHANGED << artifact, fitted, trn, requestVars, call >>

\* The server process is started again after it died.
Restart ==
    /\ srv = "crashed"
    /\ srv' = "start"
    /\ srvErr' = NoExc
    /\ loadSaw' = "none"
    /\ UNCHANGED << artifact, fitted, trn, model, requestVars, call >>

InitStartup ==
    /\ artifact = File("missing", NoForest)
    /\ fitted = NoForest
    /\ trn = "start"
    /\ model = Handle(FALSE, NoForest)
    /\ srv = "start"
    /\ srvErr = NoExc
    /\ loadSaw = "none"
    /\ NoRequests
    /\ call = NoCall

NextStartup ==
    \/ TrainFit
    \/ TrainOpen
    \/ TrainDump
    \/ TrainAgain
    \/ ImportOpen
    \/ ImportLoad
    \/ Restart

SpecStartup == InitStartup /\ [][NextStartup]_vars

\* ---------------------------------------------------------------- claims

\* A JSON object that holds the four required fields.
HasAllFields(b) == b.kind = "object" /\ RequiredKeys \subseteq DOMAIN b.obj

\* C1: a request in which get_json or predict_churn raised is answered with
\* status 400 and the body {"error": str(e)}; every answered request has status
\* 200 or 400, and none is left with an exception that nothing handles.
C1_ExceptionsBecome400 ==
    \A c \in Clients :
        /\ pc[c] = "raised" => err[c] # NoExc
        /\ pc[c] = "done" =>
              /\ resp[c].status \in { 200, 400 }
              /\ err[c] # NoExc =>
                    /\ resp[c].status = 400
                    /\ DOMAIN resp[c].body = { "error" }
                    /\ resp[c].body.error =
                          (IF err[c].type = "KeyError"
                           THEN "'" \o err[c].arg \o "'" ELSE err[c].arg)
              /\ err[c] = NoExc => resp[c].status = 200

\* A request answered after predict_churn raised KeyError, and one answered
\* after get_json raised.
C1_Witness ==
    /\ pc["c1"] = "done" /\ err["c1"].type = "KeyError" /\ resp["c1"].status = 400
    /\ pc["c2"] = "done" /\ err["c2"].type = "BadRequest" /\ resp["c2"].status = 400

\* C2: a request whose body parsed to a mapping with the four fields and whose
\* predict_churn call returned is answered with status 200 and a body of
\* exactly churn_risk and confidence, with the values predict_churn returned.
C2_SuccessIs200WithPrediction ==
    \A c \in Clients :
        (pc[c] = "done" /\ HasAllFields(data[c]) /\ ~out[c].raised) =>
            /\ resp[c].status = 200
            /\ DOMAIN resp[c].body = { "churn_risk", "confidence" }
            /\ resp[c].body.churn_risk = out[c].value.churn_risk
            /\ resp[c].body.confidence = out[c].value.confidence
            /\ out[c].value = predict_churn(model.value, data[c]).value

\* A request with the four fields and an extra one, answered 200.
C2_Witness ==
    \E c \in Clients :
        /\ pc[c] = "done" /\ HasAllFields(data[c]) /\ ~out[c].raised
        /\ ExtraKey \in DOMAIN data[c].obj
        /\ resp[c].status = 200

\* C3: a request whose body is a JSON object that lacks one of the four fields
\* is answered with status 400 and a body whose error is a non-empty string.
C3_MissingFieldIs400 ==
    \A c \in Clients :
        (pc[c] = "done" /\ req[c].kind = "object" /\ ~HasAllFields(req[c])) =>
            /\ resp[c].status = 400
            /\ "error" \in DOMAIN resp[c].body
            /\ resp[c].body.error # ""

\* A request that lacks only total_spent and carries an extra field, answered.
C3_Witness ==
    \E c \in Clients :
        /\ pc[c] = "done" /\ req[c].kind = "object"
        /\ DOMAIN req[c].obj = (RequiredKeys \ { "total_spent" }) \cup { ExtraKey }
        /\ resp[c].status = 400

\* C4: a request whose body is not a JSON object (not JSON at all, empty,
\* null, a number, a string, an array) is answered with status 400, and no
\* call on the model was made for it.
C4_NotAnObjectIs400NoModelCall ==
    \A c \in Clients :
        (req[c].kind \in BodyKinds \ { "object" }) =>
            /\ out[c].calls = 0
            /\ pc[c] \notin { "returned" }
            /\ pc[c] = "done" => resp[c].status = 400

\* A malformed body and a null body, both answered.
C4_Witness ==
    /\ pc["c1"] = "done" /\ req["c1"].kind = "malformed" /\ resp["c1"].status = 400
    /\ pc["c2"] = "done" /\ req["c2"].kind = "null" /\ resp["c2"].status = 400

C5_RecordRanges ==
    (call.made /\ ~call.ret.raised) =>
        LET v == call.ret.value
        IN  /\ v.churn_risk \in { 0, 1 }
            /\ v.confidence.den > 0
            /\ 0 <= v.confidence.num /\ v.confidence.num <= v.confidence.den
            /\ (100 * v.confidence.num) % v.confidence.den = 0

\* A returned record whose probability, two thirds, is not a whole number of
\* hundredths before it is rounded.
C5_Witness ==
    /\ call.made /\ ~call.ret.raised
    /\ call.ret.value.confidence = Frac(67, 100)

\* C9: the row predict_churn builds holds avg_order_value, purchase_frequency,
\* days_since_last_purchase and total_spent of the input at positions 1..4,
\* which is the order of the columns the loaded model was fitted on; other
\* fields of the input do not show in it.
C9_FeatureOrderIsTrainingOrder ==
    (call.made /\ HasAllFields(call.arg)) =>
        /\ call.ret.features =
              << call.arg.obj["avg_order_value"], call.arg.obj["purchase_frequency"],
                 call.arg.obj["days_since_last_purchase"], call.arg.obj["total_spent"] >>
        /\ Len(model.value.columns) = 4
        /\ \A i \in 1..4 : call.ret.features[i] = call.arg.obj[model.value.columns[i]]
        /\ model.value.columns = Drop(DataColumns, "churned")

\* A call whose input has four different-looking fields and an extra one.
C9_Witness ==
    /\ call.made /\ HasAllFields(call.arg) /\ ExtraKey \in DOMAIN call.arg.obj
    /\ call.arg.obj["days_since_last_purchase"] # call.arg.obj["total_spent"]
    /\ call.arg.obj["avg_order_value"] # call.arg.obj["purchase_frequency"]
    /\ Len(call.ret.features) = 4

\* The class probabilities the loaded model gives the row of the call.
ProbaOfCall == ModelPredictProba(model.value, << call.ret.features >>)[1]

\* C10: the confidence returned is the largest entry of the model's
\* class-probability row rounded to hundredths; that entry is the probability
\* of the class returned as churn_risk, ties included; the confidence lies
\* between 0.5 and 1.0.
C10_ConfidenceIsProbabilityOfPrediction ==
    (call.made /\ ~call.ret.raised) =>
        LET P == ProbaOfCall
            v == call.ret.value
            k == CHOOSE i \in 1..Len(Classes) : Classes[i] = v.churn_risk
        IN  /\ \A j \in 1..Len(P) : ~FracLess(P[k], P[j])
            /\ v.confidence.den = 100
            /\ 2 * (100 * P[k].num) - P[k].den <= 2 * v.confidence.num * P[k].den
            /\ 2 * v.confidence.num * P[k].den <= 2 * (100 * P[k].num) + P[k].den
            /\ 50 <= v.confidence.num /\ v.confidence.num <= 100

\* A returned record for a row on which the two class probabilities tie.
C10_Witness ==
    /\ call.made /\ ~call.ret.raised
    /\ ProbaOfCall[1] = ProbaOfCall[2]
    /\ call.ret.value.confidence = Frac(50, 100)

\* C7: when the load of predict.py ran on a present, well-formed artifact the
\* process serves with the handle set; it never serves after a load that saw
\* a missing or corrupt artifact.
C7_WellFormedArtifactServes ==
    /\ loadSaw = "ok" => (srv = "serving" /\ model.bound)
    /\ srv = "serving" => loadSaw = "ok"

\* C8: the handle is set once, before any request is served: once the load
\* statement has run on the artifact the training script wrote, `model` is
\* bound to a forest, and no request is in flight while it is not bound.
C8_HandleSetOnceBeforeServing ==
    /\ loadSaw = "ok" => (model.bound /\ model.value \in Forests)
    /\ ~model.bound => \A c \in Clients : pc[c] = "idle"

\* What holds of the handler once `model` is bound: no step of a request
\* writes the handle or the artifact.
HandlersLeaveModelAlone == [][model' = model /\ artifact' = artifact]_vars

\* The responses a request with body b gets when handled alone.
ResponsesAlone(b) ==
    { IF g.raised THEN ErrorResponse(g.exc)
      ELSE LET o == predict_churn(model.value, g.value)
           IN  IF o.raised THEN ErrorResponse(o.exc) ELSE OkResponse(o.value)
      : g \in GetJsonOutcomes(b) }

\* Under any interleaving each answered request has a response it would get
\* when handled alone.
ResponseAsIfAlone ==
    \A c \in Clients : pc[c] = "done" => resp[c] \in ResponsesAlone(req[c])

=============================================================================
